---- MODULE Spec2Model ----
(***************************************************************************)
(* Model of the assembler's semantic parser                                *)
(* (tools/sources/assembler/assembler/parser.py).                          *)
(*                                                                         *)
(* A Token is a record [type, value, line].  value is a register name for  *)
(* REGISTER, an integer for UINT, a sequence of decimal digits for STRING, *)
(* the syntax character for SYNTAX, the label name for LABEL and the       *)
(* opcode name for INSTRUCTION.                                            *)
(*                                                                         *)
(* A call of a parser ends in one of                                       *)
(*   [exc |-> "none", val |-> v]              it returned v                *)
(*   [exc |-> "ParseError", err |-> e]        it raised ParseError(e)      *)
(*   [exc |-> "ParseError", errors |-> es]    ParseError.collect_errors    *)
(*   [exc |-> "AssertionError"]               an assert statement failed   *)
(*   [exc |-> "IndexError"]                   a subscript was out of range *)
(***************************************************************************)
EXTENDS Integers, Sequences, FiniteSets, TLC

VARIABLES tokens, pos, ip, symbol_table, instructions, errors, outcome,
          call, ret

vars == <<tokens, pos, ip, symbol_table, instructions, errors, outcome,
          call, ret>>

parseVars == <<tokens, pos, ip, symbol_table, instructions, errors, outcome>>

(***************************************************************************)
(* Bounds of the model.                                                    *)
(***************************************************************************)
MaxLines == 3

(***************************************************************************)
(* Tokens.                                                                 *)
(***************************************************************************)
Tok(ty, v) == [type |-> ty, value |-> v, line |-> 0]

Reg(r) == Tok("REGISTER", r)

UInt(n) == Tok("UINT", n)

Syn(s) == Tok("SYNTAX", s)

RECURSIVE Digits(_)
Digits(n) == IF n < 10 THEN <<n>> ELSE Append(Digits(n \div 10), n % 10)

Str(n) == Tok("STRING", Digits(n))

Stamp(toks, ln) == [k \in DOMAIN toks |-> [toks[k] EXCEPT !.line = ln]]

IsSyntax(tok, s) == tok.type = "SYNTAX" /\ tok.value = s

Registers == {"R1", "R2"}

Min(a, b) == IF a < b THEN a ELSE b

Pow2(w) == 2 ^ w

(***************************************************************************)
(* Results of a call.                                                      *)
(***************************************************************************)
Ok(v) == [exc |-> "none", val |-> v]

ParseError(kind, ln) == [exc |-> "ParseError", err |-> [kind |-> kind, line |-> ln]]

collect_errors(errs) == [exc |-> "ParseError", errors |-> errs]

Crash(e) == [exc |-> e]

(***************************************************************************)
(* Sized numbers: Uint5, Uint16, Uint24.                                   *)
(***************************************************************************)
Width(num_type) ==
    CASE num_type = "Uint5" -> 5
      [] num_type = "Uint16" -> 16
      [] num_type = "Uint24" -> 24

MAX(num_type) == Pow2(Width(num_type)) - 1

RECURSIVE StrToInt(_)
StrToInt(s) ==
    IF s = <<>> THEN 0
    ELSE 10 * StrToInt(SubSeq(s, 1, Len(s) - 1)) + s[Len(s)]

NumericValue(token) ==
    IF token.type = "UINT" THEN token.value ELSE StrToInt(token.value)

PositiveSizedNumber(num_type, token) ==
    LET v == NumericValue(token) IN
    IF v > MAX(num_type) THEN Crash("OverflowError_")
    ELSE Ok([t |-> num_type, v |-> v])

(***************************************************************************)
(* Helpers of the operand parsers.                                         *)
(***************************************************************************)
empty_token_check(toks, ln) ==
    IF toks = <<>> THEN ParseError("EmptyOperand", ln) ELSE Ok(toks)

extact_token(one_token, ln) ==
    LET c == empty_token_check(one_token, ln) IN
    IF c.exc # "none" THEN c
    ELSE IF Len(one_token) > 1 THEN ParseError("ExtraTokens", ln)
    ELSE Ok(one_token[1])

token_type_check(token, token_types, ln) ==
    IF token.type \notin token_types THEN ParseError("WrongTokenType", ln)
    ELSE Ok(token)

\* The handler of OverflowError_ first asserts isinstance(token.value, int):
\* a UINT token carries an int, a STRING token a str, so for a STRING token
\* the assert fails before the ParseError is built.
extract_token_num(token, num_type, ln) ==
    LET c == token_type_check(token, {"UINT", "STRING"}, ln) IN
    IF c.exc # "none" THEN c
    ELSE LET n == PositiveSizedNumber(num_type, token) IN
         IF n.exc = "OverflowError_"
         THEN IF token.type = "UINT"
              THEN ParseError("NumberOverflow", ln)
              ELSE Crash("AssertionError")
         ELSE n

(***************************************************************************)
(* Operand parsers (the Parseable visitors).                               *)
(***************************************************************************)
RegisterValue(r) == [t |-> "Register", name |-> r]

SizedZero(num_type) == [t |-> num_type, v |-> 0]

ShiftValue(shift_type, register, amount) ==
    [t |-> "Shift", type |-> shift_type, register |-> register, amount |-> amount]

PointerDerefValue(register, increment) ==
    [t |-> "PointerDeref", register |-> register, increment |-> increment]

parse_Register(toks, ln) ==
    LET e == extact_token(toks, ln) IN
    IF e.exc # "none" THEN e
    ELSE LET c == token_type_check(e.val, {"REGISTER"}, ln) IN
         IF c.exc # "none" THEN c ELSE Ok(RegisterValue(c.val.value))

\* Register.parse applied to one token (tokens[1] of a dereference, tokens[0]
\* of a shift), not to a token sequence.
Register_parse(token, ln) ==
    LET c == token_type_check(token, {"REGISTER"}, ln) IN
    IF c.exc # "none" THEN c ELSE Ok(RegisterValue(c.val.value))

parse_number(num_type, toks, ln) ==
    LET e == extact_token(toks, ln) IN
    IF e.exc # "none" THEN e ELSE extract_token_num(e.val, num_type, ln)

parse_Shift(toks, ln) ==
    LET c == empty_token_check(toks, ln) IN
    IF c.exc # "none" THEN c
    ELSE LET register == Register_parse(toks[1], ln) IN
         IF register.exc # "none" THEN register
         ELSE IF Len(toks) = 1
              THEN Ok(ShiftValue("<<", register.val, SizedZero("Uint5")))
         ELSE IF ~(IsSyntax(toks[2], ">>") \/ IsSyntax(toks[2], "<<"))
              THEN ParseError("InvalidShiftOperator", ln)
         ELSE LET e == extact_token(SubSeq(toks, 3, Len(toks)), ln) IN
              IF e.exc # "none" THEN e
              ELSE LET amount == extract_token_num(e.val, "Uint5", ln) IN
                   IF amount.exc # "none" THEN amount
                   ELSE Ok(ShiftValue(toks[2].value, register.val, amount.val))

\* The parsers are tried in order and the first success wins; when none
\* succeeds, error is raised.
exception_chain(first, second, error) ==
    IF first.exc = "none" THEN first
    ELSE IF second.exc = "none" THEN second
    ELSE error

\* parse_PointerDeref with the increment sliced as tokens[3:], the closing
\* bracket included.
parse_PointerDerefIncrementToEnd(toks, ln) ==
    LET c == empty_token_check(toks, ln) IN
    IF c.exc # "none" THEN c
    ELSE IF ~IsSyntax(toks[1], "[") \/ ~IsSyntax(toks[Len(toks)], "]")
         THEN ParseError("InvalidPointerDereference", ln)
    ELSE LET register == Register_parse(toks[2], ln) IN
         IF register.exc # "none" THEN register
         ELSE IF Len(toks) > 3
              THEN IF ~IsSyntax(toks[3], "+")
                   THEN ParseError("OperatorExpected", ln)
                   ELSE LET inc == SubSeq(toks, 4, Len(toks))
                            increment ==
                                exception_chain(
                                    parse_number("Uint16", inc, ln),
                                    parse_Shift(inc, ln),
                                    ParseError("InvalidPointerDereference", ln))
                        IN IF increment.exc # "none" THEN increment
                           ELSE Ok(PointerDerefValue(register.val, increment.val))
              ELSE Ok(PointerDerefValue(register.val, SizedZero("Uint16")))

parse_PointerDeref(toks, ln) ==
    LET c == empty_token_check(toks, ln) IN
    IF c.exc # "none" THEN c
    ELSE IF ~IsSyntax(toks[1], "[") \/ ~IsSyntax(toks[Len(toks)], "]")
         THEN ParseError("InvalidPointerDereference", ln)
    ELSE LET register == Register_parse(toks[2], ln) IN
         IF register.exc # "none" THEN register
         ELSE IF Len(toks) > 3
              THEN IF ~IsSyntax(toks[3], "+")
                   THEN ParseError("OperatorExpected", ln)
                   ELSE LET inc == SubSeq(toks, 4, Len(toks) - 1)
                            increment ==
                                exception_chain(
                                    parse_number("Uint16", inc, ln),
                                    parse_Shift(inc, ln),
                                    ParseError("InvalidPointerDereference", ln))
                        IN IF increment.exc # "none" THEN increment
                           ELSE Ok(PointerDerefValue(register.val, increment.val))
              ELSE Ok(PointerDerefValue(register.val, SizedZero("Uint16")))

Parseable_parse(arg_type, toks, ln) ==
    CASE arg_type = "Register" -> parse_Register(toks, ln)
      [] arg_type = "PointerDeref" -> parse_PointerDeref(toks, ln)
      [] arg_type = "Shift" -> parse_Shift(toks, ln)
      [] arg_type \in {"Uint16", "Uint24"} -> parse_number(arg_type, toks, ln)

(***************************************************************************)
(* The instruction set: each opcode's ordered operand positions.  A        *)
(* position is one operand type or an ordered tuple of alternatives.       *)
(***************************************************************************)
One(ty) == [single |-> TRUE, type |-> ty]

AnyOf(tys) == [single |-> FALSE, types |-> tys]

Opcodes == {"NOP", "JMP", "MOV", "LDR", "ADD"}

InstructionEnum(op) ==
    CASE op = "NOP" -> <<>>
      [] op = "JMP" -> <<One("Uint24")>>
      [] op = "MOV" -> <<One("Register"), AnyOf(<<"Register", "Uint16">>)>>
      [] op = "LDR" -> <<One("Register"), One("PointerDeref")>>
      [] op = "ADD" -> <<One("Register"), One("Register"),
                         AnyOf(<<"Register", "Shift", "Uint16">>)>>

(***************************************************************************)
(* parse_args: the argument dispatcher.                                    *)
(***************************************************************************)
Alternatives(arg_types) ==
    IF arg_types.single THEN <<arg_types.type>> ELSE arg_types.types

\* The inner for/else of parse_args.  arg[0].line is evaluated inside the try
\* block, before the parser is called; only ParseError is caught there, so
\* the IndexError of an empty group propagates.  error is the local of
\* parse_args of that name: assigned only when a ParseError is caught, never
\* reset, so it is carried from one position to the next.  The call gives
\* how the loop ended (a value, an exception that is no ParseError, or
\* "exhausted" when the for loop ran to its else branch) and error after it.
Unbound == [bound |-> FALSE]

Exhausted == [exc |-> "exhausted"]

RECURSIVE TryAlternatives(_, _, _)
TryAlternatives(arg_types, arg, error) ==
    IF arg_types = <<>> THEN [res |-> Exhausted, error |-> error]
    ELSE IF arg = <<>> THEN [res |-> Crash("IndexError"), error |-> error]
    ELSE LET r == Parseable_parse(Head(arg_types), arg, arg[1].line) IN
         IF r.exc = "ParseError" THEN TryAlternatives(Tail(arg_types), arg, r.err)
         ELSE [res |-> r, error |-> error]

\* The outer loop over zip(parser_types, args): values are yielded while no
\* position has failed; after the last pair the collected errors are raised.
\* In the else branch errors.append(error) reads error: unbound when no
\* ParseError was caught so far in the call, else the last one caught, also
\* when that was at an earlier position.
RECURSIVE parse_args_loop(_, _, _, _, _, _)
RECURSIVE parse_args_position(_, _, _, _, _, _)
parse_args_position(parser_types, args, k, errs, yielded, t) ==
    IF t.res.exc = "none"
    THEN parse_args_loop(parser_types, args, k + 1, errs,
                         IF errs = <<>> THEN Append(yielded, t.res.val) ELSE yielded,
                         t.error)
    ELSE IF t.res = Exhausted
    THEN IF t.error = Unbound
         THEN Crash("UnboundLocalError")
         ELSE parse_args_loop(parser_types, args, k + 1, Append(errs, t.error),
                              yielded, t.error)
    ELSE t.res

parse_args_loop(parser_types, args, k, errs, yielded, error) ==
    IF k > Min(Len(parser_types), Len(args))
    THEN IF errs # <<>> THEN collect_errors(errs) ELSE Ok(yielded)
    ELSE parse_args_position(parser_types, args, k, errs, yielded,
             TryAlternatives(Alternatives(parser_types[k]), args[k], error))

parse_args(parser_types, args) ==
    parse_args_loop(parser_types, args, 1, <<>>, <<>>, Unbound)

(***************************************************************************)
(* comma_split.                                                            *)
(***************************************************************************)
RECURSIVE comma_split_loop(_, _, _)
comma_split_loop(toks, current_tokens, yielded) ==
    IF toks = <<>>
    THEN IF current_tokens # <<>> THEN Append(yielded, current_tokens) ELSE yielded
    ELSE IF IsSyntax(Head(toks), ",")
         THEN comma_split_loop(Tail(toks), <<>>, Append(yielded, current_tokens))
         ELSE comma_split_loop(Tail(toks), Append(current_tokens, Head(toks)), yielded)

comma_split(toks) == comma_split_loop(toks, <<>>, <<>>)

(***************************************************************************)
(* parse: the state of one invocation and one step per input line.         *)
(***************************************************************************)
IpStep == 32

IsLabelLine(line) == IsSyntax(line[Len(line)], ":")

LabelAddress(p) == p + 1

SetSymbolKeepFirst(table, name, address) ==
    [n \in DOMAIN table \cup {name} |-> IF n \in DOMAIN table THEN table[n] ELSE address]

SetSymbol(table, name, address) ==
    [n \in DOMAIN table \cup {name} |-> IF n = name THEN address ELSE table[n]]

AdvanceIpByOne(p) == p + 1

AdvanceIp(p) == p + IpStep

ArityErrorsOnlySurplus(errs, instruction, raw_args, line_num) ==
    IF Len(raw_args) > Len(InstructionEnum(instruction))
    THEN Append(errs, [kind |-> "ArityMismatch", line |-> line_num,
                       opcode |-> instruction,
                       expected |-> Len(InstructionEnum(instruction)),
                       given |-> Len(raw_args)])
    ELSE errs

ArityErrors(errs, instruction, raw_args, line_num) ==
    IF Len(raw_args) # Len(InstructionEnum(instruction))
    THEN Append(errs, [kind |-> "ArityMismatch", line |-> line_num,
                       opcode |-> instruction,
                       expected |-> Len(InstructionEnum(instruction)),
                       given |-> Len(raw_args)])
    ELSE errs

InstructionValue(instruction, args) == [type |-> instruction, args |-> args]

ParseReturnIgnoringErrors(insts, table, errs) ==
    [exc |-> "none", instructions |-> insts, symbol_table |-> table]

ParseReturn(insts, table, errs) ==
    IF errs # <<>> THEN collect_errors(errs)
    ELSE [exc |-> "none", instructions |-> insts, symbol_table |-> table]

Running == [exc |-> "running"]

Pending == [exc |-> "pending"]

CurrentLine == tokens[pos + 1]

LabelAsserts(line) ==
    /\ line[Len(line)].type = "SYNTAX"
    /\ Len(line) = 2
    /\ line[1].type = "LABEL"

\* A line whose last token is ":" takes the label branch, whatever its other
\* tokens; the asserts of the branch then end the parse on a line that is
\* not a LABEL token followed by ":".
LabelDefinition ==
    /\ outcome = Running
    /\ pos < Len(tokens)
    /\ IsLabelLine(CurrentLine)
    /\ IF LabelAsserts(CurrentLine)
       THEN /\ symbol_table' = SetSymbol(symbol_table, CurrentLine[1].value,
                                         LabelAddress(ip))
            /\ outcome' = outcome
       ELSE /\ outcome' = Crash("AssertionError")
            /\ symbol_table' = symbol_table
    /\ pos' = pos + 1
    /\ UNCHANGED <<tokens, ip, instructions, errors, call, ret>>

\* An instruction line on which list(parse_args(...)) returns.
InstructionLine ==
    /\ outcome = Running
    /\ pos < Len(tokens)
    /\ ~IsLabelLine(CurrentLine)
    /\ CurrentLine[1].type = "INSTRUCTION"
    /\ LET line_num == CurrentLine[1].line
           instruction == CurrentLine[1].value
           raw_args == comma_split(Tail(CurrentLine))
           args == parse_args(InstructionEnum(instruction), raw_args)
       IN /\ args.exc = "none"
          /\ ip' = AdvanceIp(ip)
          /\ errors' = ArityErrors(errors, instruction, raw_args, line_num)
          /\ instructions' = Append(instructions, InstructionValue(instruction, args.val))
          /\ pos' = pos + 1
    /\ UNCHANGED <<tokens, symbol_table, outcome, call, ret>>

\* An instruction line on which list(parse_args(...)) raises: parse has no
\* handler around it, so the exception leaves parse at this line, after ip
\* was advanced and the arity error, if any, was appended to errors.  The
\* assert that the first token is an INSTRUCTION comes after ip += 32.
InstructionLineRaises ==
    /\ outcome = Running
    /\ pos < Len(tokens)
    /\ ~IsLabelLine(CurrentLine)
    /\ LET line_num == CurrentLine[1].line
           instruction == CurrentLine[1].value
           raw_args == comma_split(Tail(CurrentLine))
           args == parse_args(InstructionEnum(instruction), raw_args)
       IN IF CurrentLine[1].type # "INSTRUCTION"
          THEN /\ ip' = AdvanceIp(ip)
               /\ errors' = errors
               /\ outcome' = Crash("AssertionError")
               /\ pos' = pos + 1
          ELSE /\ args.exc # "none"
               /\ ip' = AdvanceIp(ip)
               /\ errors' = ArityErrors(errors, instruction, raw_args, line_num)
               /\ outcome' = args
               /\ pos' = pos + 1
    /\ UNCHANGED <<tokens, symbol_table, instructions, call, ret>>

\* The end of the input: the queued errors are raised, or the result returned.
Return ==
    /\ outcome = Running
    /\ pos = Len(tokens)
    /\ outcome' = ParseReturn(instructions, symbol_table, errors)
    /\ UNCHANGED <<tokens, pos, ip, symbol_table, instructions, errors, call, ret>>

(***************************************************************************)
(* Input files: every sequence of at most MaxLines lines of InputLines,    *)
(* each token carrying the number of its line.                             *)
(***************************************************************************)
Labels == {"a", "b"}

LabelLine(name) == <<Tok("LABEL", name), Syn(":")>>

RECURSIVE JoinComma(_)
JoinComma(groups) ==
    IF groups = <<>> THEN <<>>
    ELSE IF Len(groups) = 1 THEN groups[1]
    ELSE groups[1] \o <<Syn(",")>> \o JoinComma(Tail(groups))

InstructionLineOf(op, groups) == <<Tok("INSTRUCTION", op)>> \o JoinComma(groups)

GroupLists(G) ==
    {<<>>} \cup {<<g>> : g \in G} \cup {<<g, h>> : g \in G, h \in G}

FileOpcodes == {"JMP", "MOV"}

FileGroups == {<<Reg("R1")>>, <<UInt(7)>>}

InputLines ==
    {LabelLine(n) : n \in Labels}
    \cup {InstructionLineOf(op, gs) : op \in FileOpcodes, gs \in GroupLists(FileGroups)}

RECURSIVE Files(_)
Files(n) ==
    IF n = 0 THEN {<<>>}
    ELSE LET shorter == Files(n - 1) IN
         shorter \cup {Append(f, l) : f \in {g \in shorter : Len(g) = n - 1},
                                      l \in InputLines}

Tokenize(file) == [k \in DOMAIN file |-> Stamp(file[k], k)]

NoCall == [fn |-> "parse"]

EmptyTable == [n \in {} |-> 0]

Init ==
    /\ tokens \in {Tokenize(f) : f \in Files(MaxLines)}
    /\ pos = 0
    /\ ip = 0
    /\ symbol_table = EmptyTable
    /\ instructions = <<>>
    /\ errors = <<>>
    /\ outcome = Running
    /\ call = NoCall
    /\ ret = Pending

Next ==
    \/ LabelDefinition
    \/ InstructionLine
    \/ InstructionLineRaises
    \/ Return

Spec == Init /\ [][Next]_vars

(***************************************************************************)
(* One-line files over the whole instruction set, with operand groups of   *)
(* every kind: empty groups, immediates given as strings, dereferences.    *)
(***************************************************************************)
LineGroups ==
    {<<Reg("R1")>>, <<UInt(7)>>, <<>>, <<Str(7)>>, <<Str(65536)>>,
     <<Syn("["), Reg("R2"), Syn("]")>>}

LineCatalog ==
    {LabelLine(n) : n \in Labels}
    \cup {InstructionLineOf(op, gs) : op \in Opcodes, gs \in GroupLists(LineGroups)}
    \cup {InstructionLineOf(op, <<<<Syn(":")>>>>) : op \in Opcodes}

InitLine ==
    /\ tokens \in {Tokenize(<<l>>) : l \in LineCatalog}
    /\ pos = 0
    /\ ip = 0
    /\ symbol_table = EmptyTable
    /\ instructions = <<>>
    /\ errors = <<>>
    /\ outcome = Running
    /\ call = NoCall
    /\ ret = Pending

SpecLine == InitLine /\ [][Next]_vars

(***************************************************************************)
(* The operand parsers and the dispatcher on their own: one call, its      *)
(* arguments drawn from bounded sets, and what it returns or raises.       *)
(***************************************************************************)
NoFile(c) ==
    /\ tokens = <<>>
    /\ pos = 0
    /\ ip = 0
    /\ symbol_table = EmptyTable
    /\ instructions = <<>>
    /\ errors = <<>>
    /\ outcome = Running
    /\ call = c
    /\ ret = Pending

CallLines == {1, 2}

NumTypes == {"Uint5", "Uint16", "Uint24"}

NumberValues ==
    UNION {{0, 1, MAX(nt) - 1, MAX(nt), MAX(nt) + 1, MAX(nt) + 2} : nt \in NumTypes}

NumberTokens == {UInt(v) : v \in NumberValues} \cup {Str(v) : v \in NumberValues}

NumberGroups ==
    {<<tok>> : tok \in NumberTokens}
    \cup {<<>>, <<Reg("R1")>>, <<Syn("+")>>, <<UInt(1), UInt(1)>>, <<Str(1), Reg("R1")>>}

InitNumber ==
    \E nt \in NumTypes, g \in NumberGroups, ln \in CallLines :
        NoFile([fn |-> "parse_number", num_type |-> nt, toks |-> Stamp(g, ln), line |-> ln])

ApplyParseNumber ==
    /\ call.fn = "parse_number"
    /\ ret = Pending
    /\ ret' = parse_number(call.num_type, call.toks, call.line)
    /\ UNCHANGED <<parseVars, call>>

SpecNumber == InitNumber /\ [][ApplyParseNumber]_vars

DerefHeads ==
    {<<>>, <<Syn("[")>>, <<Reg("R1")>>, <<Syn("["), UInt(1)>>,
     <<Syn("["), Reg("R1"), Syn("<<")>>, <<Syn("["), UInt(1), Syn("+")>>}
    \cup {<<Syn("["), Reg(r)>> : r \in Registers}
    \cup {<<Syn("["), Reg(r), Syn("+")>> : r \in Registers}

DerefTails == {<<>>, <<Syn("]")>>}

IncrementTokens ==
    {Reg(r) : r \in Registers}
    \cup {Syn("<<"), Syn(">>"), Syn("+")}
    \cup {UInt(v) : v \in {0, 31, 32, 65535, 65536}}
    \cup {Str(v) : v \in {0, 31, 32, 65535, 65536}}

Increments ==
    {<<>>} \cup {<<x>> : x \in IncrementTokens}
    \cup {<<x, y>> : x \in IncrementTokens, y \in IncrementTokens}
    \cup {<<x, y, z>> : x \in IncrementTokens, y \in IncrementTokens, z \in IncrementTokens}

InitDeref ==
    \E h \in DerefHeads, inc \in Increments, t \in DerefTails, ln \in CallLines :
        NoFile([fn |-> "parse_PointerDeref", toks |-> Stamp(h \o inc \o t, ln), line |-> ln])

ApplyParsePointerDeref ==
    /\ call.fn = "parse_PointerDeref"
    /\ ret = Pending
    /\ ret' = parse_PointerDeref(call.toks, call.line)
    /\ UNCHANGED <<parseVars, call>>

SpecDeref == InitDeref /\ [][ApplyParsePointerDeref]_vars

ArgGroups ==
    LineGroups \cup {<<Reg("R2"), Syn("<<"), UInt(3)>>, <<Reg("R2"), Syn(">>"), Str(32)>>}

ArgLists ==
    GroupLists(ArgGroups)
    \cup {<<g, h, k>> : g \in ArgGroups, h \in ArgGroups, k \in ArgGroups}

InitArgs ==
    \E op \in Opcodes, gs \in ArgLists, ln \in CallLines :
        NoFile([fn |-> "parse_args", instruction |-> op,
                args |-> [k \in DOMAIN gs |-> Stamp(gs[k], ln)], line |-> ln])

ApplyParseArgs ==
    /\ call.fn = "parse_args"
    /\ ret = Pending
    /\ ret' = parse_args(InstructionEnum(call.instruction), call.args)
    /\ UNCHANGED <<parseVars, call>>

SpecArgs == InitArgs /\ [][ApplyParseArgs]_vars

(***************************************************************************)
(* What the input says about each line, read off the file alone.           *)
(***************************************************************************)
IsInstructionLine(line) == line[1].type = "INSTRUCTION" /\ ~IsLabelLine(line)

RawArgs(line) == comma_split(Tail(line))

Signature(line) == InstructionEnum(line[1].value)

ArityMismatch(line) ==
    IsInstructionLine(line) /\ Len(RawArgs(line)) # Len(Signature(line))

Dispatch(line) == parse_args(Signature(line), RawArgs(line))

OperandFailure(line) ==
    IsInstructionLine(line) /\ Dispatch(line).exc = "ParseError"

Malformed(line) == ArityMismatch(line) \/ OperandFailure(line)

InstructionLinesBefore(k) ==
    Cardinality({j \in 1..(k - 1) : IsInstructionLine(tokens[j])})

Definitions(name) ==
    {k \in 1..Len(tokens) : IsLabelLine(tokens[k]) /\ tokens[k][1].value = name}

DefinedNames == {n \in Labels : Definitions(n) # {}}

LastDefinition(name) ==
    CHOOSE k \in Definitions(name) : \A j \in Definitions(name) : j <= k

Returned == outcome.exc = "none"

Failed == outcome.exc = "ParseError"

Ended == outcome # Running

EntryLines(errs) == {errs[k].line : k \in DOMAIN errs}

(***************************************************************************)
(* Claims about parse.                                                     *)
(***************************************************************************)

\* C1: when two different instruction lines of the file are each malformed
\* (arity mismatch or an operand group failing under every alternative),
\* parse consumes every line and fails with one aggregate that has an entry
\* for each of the two lines, with that line's number.
C1_BothMalformedLinesReported ==
    Ended =>
        \A i \in 1..Len(tokens) : \A j \in 1..Len(tokens) :
            (i < j /\ Malformed(tokens[i]) /\ Malformed(tokens[j])) =>
                /\ pos = Len(tokens)
                /\ Failed
                /\ {i, j} \subseteq EntryLines(outcome.errors)

\* C2: for an instruction line with an arity mismatch that also has an
\* operand group failing under every alternative, the failure of parse holds
\* the arity-mismatch entry (opcode, expected, given) and the operand errors.
C2_ArityEntryWithOperandErrors ==
    Ended =>
        \A i \in 1..Len(tokens) :
            (ArityMismatch(tokens[i]) /\ OperandFailure(tokens[i])) =>
                /\ Failed
                /\ \E k \in DOMAIN outcome.errors :
                       outcome.errors[k] =
                           [kind |-> "ArityMismatch", line |-> i,
                            opcode |-> tokens[i][1].value,
                            expected |-> Len(Signature(tokens[i])),
                            given |-> Len(RawArgs(tokens[i]))]
                /\ \A e \in DOMAIN Dispatch(tokens[i]).errors :
                       \E k \in DOMAIN outcome.errors :
                           outcome.errors[k] = Dispatch(tokens[i]).errors[e]

\* C3: parse is all-or-nothing: a ParseResult is returned only when no line
\* has an arity mismatch and the dispatcher failed on no line; with any such
\* line nothing is returned.
C3_AllOrNothing ==
    Returned =>
        /\ pos = Len(tokens)
        /\ \A i \in 1..Len(tokens) :
               IsInstructionLine(tokens[i]) =>
                   ~ArityMismatch(tokens[i]) /\ Dispatch(tokens[i]).exc = "none"

C3_Witness ==
    /\ Failed
    /\ pos = Len(tokens)
    /\ instructions # <<>>
    /\ symbol_table # EmptyTable
    /\ \E i \in 1..Len(tokens) : ArityMismatch(tokens[i])

\* C4: on every input that meets the input contract parse ends with a
\* ParseResult or with the aggregate parse failure, never anything else, and
\* an empty operand group is reported as an EmptyOperand entry.
MeetsInputContract ==
    \A i \in 1..Len(tokens) :
        IF IsLabelLine(tokens[i]) THEN LabelAsserts(tokens[i])
        ELSE tokens[i][1].type = "INSTRUCTION"

C4_ResultOrAggregate ==
    (Ended /\ MeetsInputContract) =>
        /\ Returned \/ Failed
        /\ \A i \in 1..Len(tokens) :
               (IsInstructionLine(tokens[i])
                    /\ \E g \in DOMAIN RawArgs(tokens[i]) : RawArgs(tokens[i])[g] = <<>>) =>
                   /\ Failed
                   /\ \E k \in DOMAIN outcome.errors :
                          /\ outcome.errors[k].kind = "EmptyOperand"
                          /\ outcome.errors[k].line = i

\* C5: in a returned ParseResult every instruction has exactly as many args
\* as its opcode's declared arity.
C5_ArgsLengthIsArity ==
    Returned =>
        \A k \in DOMAIN outcome.instructions :
            Len(outcome.instructions[k].args)
                = Len(InstructionEnum(outcome.instructions[k].type))

C5_Witness ==
    /\ Returned
    /\ \E k \in DOMAIN outcome.instructions : Len(outcome.instructions[k].args) = 1
    /\ \E k \in DOMAIN outcome.instructions : Len(outcome.instructions[k].args) = 2

\* C6: in a returned ParseResult the symbol table's keys are the label names
\* the file defines, and each name maps to 32*k + 1, k the number of
\* instruction lines before the last definition of that name.
C6_LastDefinitionAddress ==
    Returned =>
        /\ DOMAIN outcome.symbol_table = DefinedNames
        /\ \A n \in DefinedNames :
               outcome.symbol_table[n]
                   = 32 * InstructionLinesBefore(LastDefinition(n)) + 1

C6_Witness ==
    /\ Returned
    /\ \E n \in DefinedNames :
           \E d \in Definitions(n) :
               /\ d < LastDefinition(n)
               /\ InstructionLinesBefore(d) < InstructionLinesBefore(LastDefinition(n))

\* C10: ip starts at 0 and never decreases; every instruction line, also a
\* malformed one, raises it by exactly 32 and a label line leaves it alone,
\* so after any consumed prefix ip = 32 * (instruction lines consumed), and
\* a label recorded after a malformed instruction line counts that line.
IpCountsConsumedInstructionLines ==
    /\ ip = 32 * InstructionLinesBefore(pos + 1)
    /\ \A n \in DOMAIN symbol_table :
           \E d \in Definitions(n) :
               /\ d <= pos
               /\ symbol_table[n] = 32 * InstructionLinesBefore(d) + 1

IpStepOfLine ==
    /\ ip' >= ip
    /\ pos' = pos + 1 =>
           IF IsInstructionLine(tokens[pos + 1]) THEN ip' = ip + 32 ELSE ip' = ip
    /\ pos' = pos => ip' = ip

C10_IpAdvancesPerInstructionLine ==
    /\ ip = 0
    /\ [](IpCountsConsumedInstructionLines)
    /\ [][IpStepOfLine]_vars

C10_Witness ==
    \E n \in DOMAIN symbol_table :
        \E d \in Definitions(n) :
            /\ d <= pos
            /\ symbol_table[n] = 32 * InstructionLinesBefore(d) + 1
            /\ \E i \in 1..(d - 1) : Malformed(tokens[i])

(***************************************************************************)
(* Claims about the operand parsers and the dispatcher.                    *)
(***************************************************************************)
Answered == ret # Pending

\* C7: for every width (5, 16, 24) and every group of exactly one UINT or
\* STRING token of numeric value v, the immediate parser returns v when
\* 0 <= v <= 2^width - 1 and fails with NumberOverflow when v >= 2^width,
\* the same for a UINT carrying v and a STRING carrying v's digits.
C7_ImmediateInRangeOrOverflow ==
    Answered =>
        \A v \in NumberValues : \A tok \in {UInt(v), Str(v)} :
            call.toks = Stamp(<<tok>>, call.line) =>
                IF v <= Pow2(Width(call.num_type)) - 1
                THEN ret = Ok([t |-> call.num_type, v |-> v])
                ELSE ret = ParseError("NumberOverflow", call.line)

Bracketed(toks) ==
    toks # <<>> /\ IsSyntax(toks[1], "[") /\ IsSyntax(toks[Len(toks)], "]")

IncrementOf(toks) == SubSeq(toks, 4, Len(toks) - 1)

DerefOf(r, increment) == Ok(PointerDerefValue(RegisterValue(r), increment))

CalledWith(g) == call.toks = Stamp(g, call.line)

InvalidPointerDereference == ParseError("InvalidPointerDereference", call.line)

\* The four forms: [R1], [R1 + n], [R1 + R2 << a] and [R1 + R2].
PointerDerefFormsParsed ==
    /\ \A r \in Registers :
           CalledWith(<<Syn("["), Reg(r), Syn("]")>>)
               => ret = DerefOf(r, [t |-> "Uint16", v |-> 0])
    /\ \A r \in Registers : \A n \in {0, 31, 32, 65535} :
           \A tok \in {UInt(n), Str(n)} :
               CalledWith(<<Syn("["), Reg(r), Syn("+"), tok, Syn("]")>>)
                   => ret = DerefOf(r, [t |-> "Uint16", v |-> n])
    /\ \A r \in Registers : \A q \in Registers : \A a \in {0, 31} :
           \A tok \in {UInt(a), Str(a)} :
               CalledWith(<<Syn("["), Reg(r), Syn("+"), Reg(q), Syn("<<"), tok, Syn("]")>>)
                   => ret = DerefOf(r, ShiftValue("<<", RegisterValue(q),
                                                  [t |-> "Uint5", v |-> a]))
    /\ \A r \in Registers : \A q \in Registers :
           CalledWith(<<Syn("["), Reg(r), Syn("+"), Reg(q), Syn("]")>>)
               => ret = DerefOf(r, ShiftValue("<<", RegisterValue(q),
                                              [t |-> "Uint5", v |-> 0]))

\* The increment of a bracketed group [ register + ... ] succeeds neither
\* as Uint16 nor as Shift.
IncrementFailsBoth ==
    /\ Len(call.toks) > 3
    /\ Bracketed(call.toks)
    /\ call.toks[2].type = "REGISTER"
    /\ IsSyntax(call.toks[3], "+")
    /\ parse_number("Uint16", IncrementOf(call.toks), call.line).exc # "none"
    /\ parse_Shift(IncrementOf(call.toks), call.line).exc # "none"

Paired == 1..Min(Len(InstructionEnum(call.instruction)), Len(call.args))

AlternativesAt(k) == Alternatives(InstructionEnum(call.instruction)[k])

AttemptAt(k, a) == Parseable_parse(AlternativesAt(k)[a], call.args[k], call.line)

PositionFails(k) ==
    \A a \in DOMAIN AlternativesAt(k) : AttemptAt(k, a).exc # "none"

FirstSuccessAt(k) ==
    AttemptAt(k, CHOOSE a \in DOMAIN AlternativesAt(k) :
                     /\ AttemptAt(k, a).exc = "none"
                     /\ \A b \in 1..(a - 1) : AttemptAt(k, b).exc # "none")

FailedBefore(k) == Cardinality({j \in Paired : j < k /\ PositionFails(j)})

C9_DispatcherAggregatesPerPosition ==
    Answered =>
        IF \A k \in Paired : ~PositionFails(k)
        THEN ret = Ok([k \in Paired |-> FirstSuccessAt(k).val])
        ELSE /\ ret.exc = "ParseError"
             /\ Len(ret.errors) = Cardinality({k \in Paired : PositionFails(k)})
             /\ \A k \in Paired :
                    PositionFails(k) =>
                        LET last == AttemptAt(k, Len(AlternativesAt(k))) IN
                        /\ last.exc = "ParseError"
                        /\ ret.errors[FailedBefore(k) + 1] = last.err

====
